---------------------------- MODULE Spec2Model ----------------------------
(***************************************************************************)
(* gh_reports: the PR report (prs_report.py), the reviews report           *)
(* (reviews_report.py), the weekly report (scripts/weekly_report.py) and   *)
(* the two gh_utils helpers.                                               *)
(*                                                                         *)
(* The specifications of this module share its variables:                  *)
(*   Spec            the control flow of main of the PR and reviews reports*)
(*   SpecDates       date-range resolution at each of its call sites       *)
(*   SpecPrAgg       aggregate_pr_stats over pull requests and reviews     *)
(*   SpecRevAgg      aggregate_review_stats over events around the range   *)
(*   SpecAgg         the two aggregators side by side                      *)
(*   SpecSummarizer  Spec together with the weekly report's summarizer     *)
(***************************************************************************)
EXTENDS Integers, Sequences, FiniteSets, TLC

VARIABLES
    \* ---- main of prs_report.py / reviews_report.py
    pc,           \* position in main ("w_..." in weekly_report)
    env,          \* environment variables and command-line arguments
    calls,        \* remote calls made so far, in order
    stdout,       \* lines printed so far, in order
    printed_at,   \* Len(calls) when print(plain) ran, -1 before
    issues,       \* number of issues the search returned, -1 before the search
    idx,          \* issues aggregated so far
    plain,        \* the formatted report, <<>> before the formatter ran
    ai_summary,   \* generate_ai_summary's result, NoSummary when None
    error,        \* the exception that ended the run, "none" otherwise
    publishes,    \* finished publisher calls: destination, outcome, result
    \* ---- date-range resolution
    site,         \* the call site resolving the range
    in_start,     \* --start as given (None, "" or a date string)
    in_end,       \* --end as given
    now,          \* the current instant (UTC wall clock)
    dpc,          \* "input" | "resolved" | "raised" | "queried"
    start_dt,     \* resolved start
    end_dt,       \* resolved end
    query,        \* the date predicate of the search query
    \* ---- aggregate_pr_stats
    apc,          \* "loop" | "done" | "raised"
    records,      \* the pull requests the loop has processed, in order
    prs_count,
    change_requests_received,
    approval_hours,
    merged_hours,
    comments_received,
    pr_stats,     \* the dict aggregate_pr_stats returns, NoPrStats before
    \* ---- aggregate_review_stats
    total_reviews,
    approvals,
    change_requests,
    comment_count,
    pr_review_deltas,
    review_stats  \* the dict aggregate_review_stats returns, NoReviewStats before

mainVars == <<pc, env, calls, stdout, printed_at, issues, idx, plain,
              ai_summary, error, publishes>>
dateVars == <<site, in_start, in_end, now, dpc, start_dt, end_dt, query>>
aggVars  == <<apc, records, prs_count, change_requests_received,
              approval_hours, merged_hours, comments_received, pr_stats>>
revVars  == <<total_reviews, approvals, change_requests, comment_count,
              pr_review_deltas, review_stats>>
vars == <<mainVars, dateVars, aggVars, revVars>>

(***************************************************************************)
(* Bounds                                                                  *)
(***************************************************************************)
MaxIssues == 2      \* issues a search returns in Spec
MaxEvents == 3      \* pull requests + reviews + comments in SpecPrAgg

(***************************************************************************)
(* Calendar and datetime values                                            *)
(***************************************************************************)
\* Python's None for an optional string, and the empty string (both falsy).
NoneStr  == [kind |-> "none"]
EmptyStr == [kind |-> "empty"]

\* tzinfo of a naive datetime.
NoTz == "naive"

IsLeap(y) == (y % 4 = 0 /\ y % 100 # 0) \/ y % 400 = 0

DaysInMonth(y, m) ==
    IF m = 2 THEN (IF IsLeap(y) THEN 29 ELSE 28)
    ELSE IF m \in {4, 6, 9, 11} THEN 30 ELSE 31

\* Calendar days the inputs are drawn from.
Days == { [y |-> 2024, m |-> 2, d |-> 29],
          [y |-> 2025, m |-> 1, d |-> 3],
          [y |-> 2025, m |-> 12, d |-> 31] }

\* Timezone suffixes a date string may carry.
TzSuffixes == {"", "Z", "+02:00"}

DateStrings == { [kind |-> "date", y |-> dd.y, m |-> dd.m, d |-> dd.d, tz |-> z]
                 : dd \in Days, z \in TzSuffixes }

OptStrings == {NoneStr, EmptyStr} \cup DateStrings

\* `if start:` / `if not start:` on an Optional[str].
Truthy(s) == s.kind = "date"

\* The instants `now` is drawn from: a day and an hour of the day.
Nows == { [y |-> dd.y, m |-> dd.m, d |-> dd.d, hh |-> 13] : dd \in Days }

\* dateutil.parser.parse on an ISO date string: midnight of that day, naive
\* unless the string names a timezone.
dateparser_parse(s) ==
    [y |-> s.y, m |-> s.m, d |-> s.d, hh |-> 0,
     tzinfo |-> IF s.tz = "" THEN NoTz
                ELSE IF s.tz = "Z" THEN "UTC" ELSE s.tz]

\* datetime.utcnow(): the current UTC wall clock, naive.
utcnow(n) == [y |-> n.y, m |-> n.m, d |-> n.d, hh |-> n.hh, tzinfo |-> NoTz]

\* datetime.now(timezone.utc): the same wall clock, aware.
now_utc(n) == [y |-> n.y, m |-> n.m, d |-> n.d, hh |-> n.hh, tzinfo |-> "UTC"]

\* dt - relativedelta(years=1): the year before, the day clamped to the month.
minus_one_year(dt) ==
    [dt EXCEPT !.y = dt.y - 1,
               !.d = IF dt.d > DaysInMonth(dt.y - 1, dt.m)
                     THEN DaysInMonth(dt.y - 1, dt.m) ELSE dt.d]

\* dt - timedelta(days=1)
minus_one_day(dt) ==
    IF dt.d > 1 THEN [dt EXCEPT !.d = dt.d - 1]
    ELSE IF dt.m > 1
         THEN [dt EXCEPT !.m = dt.m - 1, !.d = DaysInMonth(dt.y, dt.m - 1)]
         ELSE [dt EXCEPT !.y = dt.y - 1, !.m = 12, !.d = 31]

RECURSIVE minus_days(_, _)
\* dt - timedelta(days=k)
minus_days(dt, k) == IF k = 0 THEN dt ELSE minus_days(minus_one_day(dt), k - 1)

\* dt.replace(tzinfo=timezone.utc) when dt is naive, dt otherwise.
make_aware(dt) == IF dt.tzinfo = NoTz THEN [dt EXCEPT !.tzinfo = "UTC"] ELSE dt

\* dt.date().isoformat()
date_iso(dt) == [y |-> dt.y, m |-> dt.m, d |-> dt.d]

\* A datetime that was never assigned.
NoDt == [y |-> 0, m |-> 0, d |-> 0, hh |-> 0, tzinfo |-> "unset"]

(***************************************************************************)
(* parse_date_range, both versions, and the weekly report's range          *)
(***************************************************************************)
\* gh_utils.parse_date_range (imported by prs_report and reviews_report):
\* raises on a missing start.
parse_date_range_strict(start, end, n) ==
    IF ~Truthy(start)
    THEN [raised |-> "ValueError", start |-> NoDt, end |-> NoDt]
    ELSE [raised |-> "none",
          start |-> dateparser_parse(start),
          end |-> IF Truthy(end) THEN dateparser_parse(end) ELSE utcnow(n)]

\* The same function with the default start taken from the resolved end.
parse_date_range_from_end(start, end, n) ==
    LET e == IF Truthy(end) THEN dateparser_parse(end) ELSE now_utc(n)
        s == IF Truthy(start) THEN dateparser_parse(start)
             ELSE minus_one_year(e)
    IN [raised |-> "none", start |-> make_aware(s), end |-> make_aware(e)]

\* scripts/gh_utils.parse_date_range: defaults both ends, returns aware values.
parse_date_range(start, end, n) ==
    LET s == IF Truthy(start) THEN dateparser_parse(start)
             ELSE minus_one_year(now_utc(n))
        e == IF Truthy(end) THEN dateparser_parse(end) ELSE now_utc(n)
    IN [raised |-> "none", start |-> make_aware(s), end |-> make_aware(e)]

\* weekly_report.main, the range it hands to collect_counts.
weekly_range(start, end, n) ==
    IF Truthy(start) /\ Truthy(end)
    THEN parse_date_range(start, end, n)
    ELSE [raised |-> "none",
          start |-> minus_days(utcnow(n), 7),
          end |-> utcnow(n)]

\* The call sites of date-range resolution.
Sites == {"prs", "reviews", "weekly", "scripts_gh_utils"}

resolve(st, start, end, n) ==
    CASE st \in {"prs", "reviews"} -> parse_date_range_strict(start, end, n)
      [] st = "weekly"             -> weekly_range(start, end, n)
      [] OTHER                     -> parse_date_range(start, end, n)

NoQuery == [from |-> [y |-> 0, m |-> 0, d |-> 0], to |-> [y |-> 0, m |-> 0, d |-> 0]]

\* fetch_pr_issues / fetch_review_issues / collect_counts: the date predicate
\* start_s..end_s of the search query.
date_predicate(s, e) == [from |-> date_iso(s), to |-> date_iso(e)]

(***************************************************************************)
(* Pull requests, reviews and comments as the GitHub API returns them      *)
(***************************************************************************)
\* The login get_authenticated_username returns.
Username == "me"

\* r.user / c.user is None (a deleted account).
NoUser == "<no user>"
\* r.state is None or empty.
NoState == ""
\* submitted_at / merged_at is None.
NoTime == -1

SecondsPerHour == 3600
SecondsPerDay == 24 * SecondsPerHour

Logins == {Username, "other", NoUser}
ReviewStates == {"APPROVED", "CHANGES_REQUESTED", "COMMENTED", NoState}

\* str.upper() on a review state.
Upper(s) ==
    CASE s = "approved"          -> "APPROVED"
      [] s = "changes_requested" -> "CHANGES_REQUESTED"
      [] s = "commented"         -> "COMMENTED"
      [] OTHER                   -> s

RECURSIVE DaysBeforeYear(_)
DaysBeforeYear(y) ==
    IF y <= 2023 THEN 0
    ELSE DaysBeforeYear(y - 1) + (IF IsLeap(y - 1) THEN 366 ELSE 365)

RECURSIVE DaysBeforeMonth(_, _)
DaysBeforeMonth(y, m) ==
    IF m <= 1 THEN 0 ELSE DaysBeforeMonth(y, m - 1) + DaysInMonth(y, m - 1)

\* Seconds from the start of 2023 (UTC) to the instant dt; a naive dt is
\* read as UTC, "+02:00" is two hours ahead of UTC.
timestamp(dt) ==
    (DaysBeforeYear(dt.y) + DaysBeforeMonth(dt.y, dt.m) + dt.d - 1) * SecondsPerDay
    + dt.hh * SecondsPerHour
    - (IF dt.tzinfo = "+02:00" THEN 2 * SecondsPerHour ELSE 0)

\* A duration in hours, delta.total_seconds() / 3600.0, kept exact as a
\* fraction; den = 0 stands for None.
hours(delta_seconds) == [num |-> delta_seconds, den |-> SecondsPerHour]
NoHours == [num |-> 0, den |-> 0]

RECURSIVE sum_num(_)
sum_num(xs) == IF xs = <<>> THEN 0 ELSE Head(xs).num + sum_num(Tail(xs))

\* The mean with an empty list averaged to zero hours.
mean_or_zero(xs) ==
    IF xs = <<>> THEN [num |-> 0, den |-> SecondsPerHour]
    ELSE [num |-> sum_num(xs), den |-> SecondsPerHour * Len(xs)]

\* sum(xs) / len(xs) if xs else None, for hour values over SecondsPerHour.
mean_or_none(xs) ==
    IF xs = <<>> THEN NoHours
    ELSE [num |-> sum_num(xs), den |-> SecondsPerHour * Len(xs)]

(***************************************************************************)
(* prs_report.py: the authored-PR aggregator                               *)
(***************************************************************************)
RECURSIVE count_comments_by_others(_, _)
\* One loop of count_comments_received.
count_comments_by_others(cs, username) ==
    IF cs = <<>> THEN 0
    ELSE (IF Head(cs).user # NoUser /\ Head(cs).user # username THEN 1 ELSE 0)
         + count_comments_by_others(Tail(cs), username)

count_comments_received(pr, username) ==
    count_comments_by_others(pr.review_comments, username)
    + count_comments_by_others(pr.issue_comments, username)

RECURSIVE approval_deltas_any_actor(_, _, _)
\* The approval loop without the actor filter.
approval_deltas_any_actor(rs, created_at, username) ==
    IF rs = <<>> THEN <<>>
    ELSE LET r == Head(rs)
             rest == approval_deltas_any_actor(Tail(rs), created_at, username)
         IN IF Upper(r.state) = "APPROVED" /\ r.submitted_at # NoTime
            THEN <<hours(r.submitted_at - created_at)>> \o rest
            ELSE rest

RECURSIVE approval_deltas(_, _, _)
\* The loop of process_pr_timings over pr.get_reviews().
approval_deltas(rs, created_at, username) ==
    IF rs = <<>> THEN <<>>
    ELSE LET r == Head(rs)
             rest == approval_deltas(Tail(rs), created_at, username)
         IN IF ~(r.user # NoUser /\ r.user # username) THEN rest
            ELSE IF Upper(r.state) = "APPROVED" /\ r.submitted_at # NoTime
                 THEN <<hours(r.submitted_at - created_at)>> \o rest
                 ELSE rest

\* merged_delta with 0.0 instead of None for a pull request not merged.
merged_delta_zero_when_unmerged(pr) ==
    IF pr.merged_at # NoTime THEN hours(pr.merged_at - pr.created_at)
    ELSE hours(0)

\* The tail of process_pr_timings: merged_delta.
merged_delta(pr) ==
    IF pr.merged_at # NoTime THEN hours(pr.merged_at - pr.created_at)
    ELSE NoHours

process_pr_timings(pr, username) ==
    [approval_deltas |-> approval_deltas(pr.reviews, pr.created_at, username),
     merged_delta |-> merged_delta(pr)]

RECURSIVE count_change_requests_any_actor(_, _)
\* The change-request loop without the actor filter.
count_change_requests_any_actor(rs, username) ==
    IF rs = <<>> THEN 0
    ELSE (IF Head(rs).state # NoState
             /\ Upper(Head(rs).state) = "CHANGES_REQUESTED" THEN 1 ELSE 0)
         + count_change_requests_any_actor(Tail(rs), username)

RECURSIVE count_change_requests(_, _)
\* The first loop of aggregate_pr_stats over pr.get_reviews().
count_change_requests(rs, username) ==
    IF rs = <<>> THEN 0
    ELSE (IF Head(rs).state # NoState /\ Head(rs).user # NoUser
             /\ Head(rs).user # username
             /\ Upper(Head(rs).state) = "CHANGES_REQUESTED" THEN 1 ELSE 0)
         + count_change_requests(Tail(rs), username)

\* aggregate_pr_stats before its loop.
PrAggInit ==
    /\ apc = "loop"
    /\ records = <<>>
    /\ prs_count = 0
    /\ change_requests_received = 0
    /\ approval_hours = <<>>
    /\ merged_hours = <<>>
    /\ comments_received = 0
    /\ pr_stats = [returned |-> FALSE]

\* One pass of the loop body of aggregate_pr_stats, on the pull request pr.
PrLoopBody(pr) ==
    LET t == process_pr_timings(pr, Username)
    IN /\ records' = Append(records, pr)
       /\ prs_count' = prs_count + 1
       /\ change_requests_received' =
              change_requests_received + count_change_requests(pr.reviews, Username)
       /\ approval_hours' = approval_hours \o t.approval_deltas
       /\ merged_hours' = IF t.merged_delta # NoHours
                          THEN Append(merged_hours, t.merged_delta)
                          ELSE merged_hours
       /\ comments_received' =
              comments_received + count_comments_received(pr, Username)

\* The end of aggregate_pr_stats: the averages and the returned dict.
PrStatsDict(s, e) ==
    [returned |-> TRUE,
     start |-> s,
     end |-> e,
     prs_count |-> prs_count,
     change_requests_received |-> change_requests_received,
     avg_hours_to_approval |-> mean_or_none(approval_hours),
     avg_hours_to_merge |-> mean_or_none(merged_hours),
     comments_received |-> comments_received]

(***************************************************************************)
(* reviews_report.py: the reviewed-PR aggregator                           *)
(***************************************************************************)
\* The range check with the end bound exclusive.
in_range_exclusive_end(s, t, e) == timestamp(s) <= t /\ t < timestamp(e)

\* Comparing the range bound dt with a datetime PyGithub returned raises
\* TypeError when exactly one of the two is timezone-aware.
compare_raises(dt, aware) == (dt.tzinfo # NoTz) # aware

\* start_dt <= t <= end_dt raises: the chain stops at its first false link.
in_range_raises(s, t, e, aware) ==
    \/ compare_raises(s, aware)
    \/ (timestamp(s) <= t /\ compare_raises(e, aware))

\* start_dt <= t <= end_dt, t an event's timestamp.
in_range(s, t, e) == timestamp(s) <= t /\ t <= timestamp(e)

RECURSIVE count_comments_by_user(_, _, _, _)
\* One loop of count_comments_for_pr.
count_comments_by_user(cs, username, s, e) ==
    IF cs = <<>> THEN 0
    ELSE (IF Head(cs).user # NoUser /\ Head(cs).user = username
             /\ in_range(s, Head(cs).created_at, e) THEN 1 ELSE 0)
         + count_comments_by_user(Tail(cs), username, s, e)

count_comments_for_pr(pr, username, s, e) ==
    count_comments_by_user(pr.review_comments, username, s, e)
    + count_comments_by_user(pr.issue_comments, username, s, e)

\* A comparison in one loop of count_comments_for_pr raises.
count_comments_raises(cs, username, s, e, aware) ==
    \E i \in DOMAIN cs :
        /\ cs[i].user # NoUser
        /\ cs[i].user = username
        /\ in_range_raises(s, cs[i].created_at, e, aware)

\* A comparison in process_review_events raises.
process_review_events_raises(rs, username, s, e, aware) ==
    \E i \in DOMAIN rs :
        /\ rs[i].user # NoUser
        /\ rs[i].submitted_at # NoTime
        /\ rs[i].user = username
        /\ in_range_raises(s, rs[i].submitted_at, e, aware)

\* The loop body of aggregate_review_stats raises on the pull request pr.
review_loop_body_raises(pr, username, s, e, aware) ==
    \/ count_comments_raises(pr.review_comments, username, s, e, aware)
    \/ count_comments_raises(pr.issue_comments, username, s, e, aware)
    \/ process_review_events_raises(pr.reviews, username, s, e, aware)

RECURSIVE process_review_events_delta_on_approval(_, _, _, _, _)
\* process_review_events recording a latency sample for approvals only.
process_review_events_delta_on_approval(rs, created_at, username, s, e) ==
    IF rs = <<>>
    THEN [total |-> 0, approvals |-> 0, changes |-> 0, deltas |-> <<>>]
    ELSE LET r == Head(rs)
             rest == process_review_events_delta_on_approval(
                         Tail(rs), created_at, username, s, e)
             state == Upper(r.state)
         IN IF ~(r.user # NoUser /\ r.submitted_at # NoTime) THEN rest
            ELSE IF ~(r.user = username /\ in_range(s, r.submitted_at, e))
                 THEN rest
                 ELSE [total |-> rest.total + 1,
                       approvals |-> rest.approvals
                                     + (IF state = "APPROVED" THEN 1 ELSE 0),
                       changes |-> rest.changes
                                   + (IF state = "CHANGES_REQUESTED" THEN 1 ELSE 0),
                       deltas |-> (IF state = "APPROVED"
                                   THEN <<hours(r.submitted_at - created_at)>>
                                   ELSE <<>>)
                                  \o rest.deltas]

RECURSIVE process_review_events(_, _, _, _, _)
\* process_review_events over rs = pr.get_reviews().
process_review_events(rs, created_at, username, s, e) ==
    IF rs = <<>>
    THEN [total |-> 0, approvals |-> 0, changes |-> 0, deltas |-> <<>>]
    ELSE LET r == Head(rs)
             rest == process_review_events(Tail(rs), created_at, username, s, e)
             state == Upper(r.state)
         IN IF ~(r.user # NoUser /\ r.submitted_at # NoTime) THEN rest
            ELSE IF ~(r.user = username /\ in_range(s, r.submitted_at, e))
                 THEN rest
                 ELSE [total |-> rest.total + 1,
                       approvals |-> rest.approvals
                                     + (IF state = "APPROVED" THEN 1 ELSE 0),
                       changes |-> rest.changes
                                   + (IF state = "CHANGES_REQUESTED" THEN 1 ELSE 0),
                       deltas |-> <<hours(r.submitted_at - created_at)>>
                                  \o rest.deltas]

\* aggregate_review_stats before its loop.
ReviewAggInit ==
    /\ total_reviews = 0
    /\ approvals = 0
    /\ change_requests = 0
    /\ comment_count = 0
    /\ pr_review_deltas = <<>>
    /\ review_stats = [returned |-> FALSE]

\* One pass of the loop body of aggregate_review_stats, on the pull request pr.
ReviewLoopBody(pr, s, e) ==
    LET t == process_review_events(pr.reviews, pr.created_at, Username, s, e)
    IN /\ comment_count' = comment_count + count_comments_for_pr(pr, Username, s, e)
       /\ total_reviews' = total_reviews + t.total
       /\ approvals' = approvals + t.approvals
       /\ change_requests' = change_requests + t.changes
       /\ pr_review_deltas' = pr_review_deltas \o t.deltas

\* The end of aggregate_review_stats: the average and the returned dict.
ReviewStatsDict(s, e) ==
    [returned |-> TRUE,
     start |-> s,
     end |-> e,
     total_reviews |-> total_reviews,
     approvals |-> approvals,
     change_requests |-> change_requests,
     comment_count |-> comment_count,
     avg_review_hours |-> mean_or_none(pr_review_deltas)]

(***************************************************************************)
(* The formatters                                                          *)
(***************************************************************************)
\* A printed line: its fixed text and the numbers formatted into it.
Line(label, args) == [label |-> label, args |-> args]

\* f"{x:.2f}" for x = r.num / r.den >= 0: hundredths rounded half to even,
\* as <<integer part, two decimals>>.
format_2f(r) ==
    LET n == 100 * r.num
        q == n \div r.den
        rem == n % r.den
        h == IF 2 * rem < r.den THEN q
             ELSE IF 2 * rem > r.den THEN q + 1
             ELSE IF q % 2 = 0 THEN q ELSE q + 1
    IN <<h \div 100, h % 100>>

date_range_line(stats) ==
    LET a == date_iso(stats.start)
        b == date_iso(stats.end)
    IN Line("Date range: {} .. {}", <<a.y, a.m, a.d, b.y, b.m, b.d>>)

\* prs_report.format_plain_report
format_pr_report(stats) ==
    << Line("PRs report", <<>>),
       date_range_line(stats),
       Line("Number of PRs created: {}", <<stats.prs_count>>),
       Line("Change requests received: {}", <<stats.change_requests_received>>),
       Line("Comments received on your PRs: {}", <<stats.comments_received>>),
       IF stats.avg_hours_to_approval # NoHours
       THEN Line("Average hours until approval: {} hours",
                 format_2f(stats.avg_hours_to_approval))
       ELSE Line("No approvals found in range.", <<>>),
       IF stats.avg_hours_to_merge # NoHours
       THEN Line("Average hours until merge: {} hours",
                 format_2f(stats.avg_hours_to_merge))
       ELSE Line("No merges found in range.", <<>>) >>

\* reviews_report.format_plain_report
format_review_report(stats) ==
    << Line("Reviews report", <<>>),
       date_range_line(stats),
       Line("Total review events: {}", <<stats.total_reviews>>),
       Line("Approvals: {}", <<stats.approvals>>),
       Line("Change requests: {}", <<stats.change_requests>>),
       Line("Comments made on PRs: {}", <<stats.comment_count>>),
       IF stats.avg_review_hours # NoHours
       THEN Line("Average hours between PR creation and your review: {} hours",
                 format_2f(stats.avg_review_hours))
       ELSE Line("No reviews found in the date range.", <<>>) >>

(***************************************************************************)
(* The summarizer and the publishers                                       *)
(***************************************************************************)
\* generate_ai_summary returned None.
NoSummary == "<None>"

\* What openai.ChatCompletion.create can do: answer with text, answer with
\* text that strips to "", or raise.
AiOutcomes == {"digest", "blank", "error"}

\* What requests.post can do: a response with a status code, or raise
\* (ConnectionError, Timeout).
HttpOutcomes ==
    { [kind |-> "response", status |-> c] : c \in {200, 204, 302, 404, 500} }
    \cup { [kind |-> "network_error", status |-> 0] }

\* `if ai_summary:` and `ai_summary or plain`
SummaryTruthy(a) == a # NoSummary /\ a # ""

\* generate_ai_summary of prs_report and reviews_report (the same code).
generate_ai_summary(e, outcome) ==
    IF ~e.OPENAI_API_KEY \/ ~e.openai_imported
    THEN [called |-> FALSE, value |-> NoSummary]
    ELSE [called |-> TRUE,
          value |-> IF outcome = "digest" THEN "digest"
                    ELSE IF outcome = "blank" THEN ""
                    ELSE NoSummary]

\* post_to_notion of prs_report and reviews_report (the same code): no
\* try/except around requests.post.
post_to_notion(notion_token, notion_page_id, outcome) ==
    IF ~notion_token \/ ~notion_page_id
    THEN [called |-> FALSE, raised |-> FALSE, ret |-> FALSE]
    ELSE IF outcome.kind = "network_error"
         THEN [called |-> TRUE, raised |-> TRUE, ret |-> FALSE]
         ELSE [called |-> TRUE, raised |-> FALSE,
               ret |-> 200 <= outcome.status /\ outcome.status < 300]

\* post_to_slack of prs_report and reviews_report (the same code).
post_to_slack(slack_webhook, outcome) ==
    IF ~slack_webhook
    THEN [called |-> FALSE, raised |-> FALSE, ret |-> FALSE]
    ELSE IF outcome.kind = "network_error"
         THEN [called |-> TRUE, raised |-> FALSE, ret |-> FALSE]
         ELSE [called |-> TRUE, raised |-> FALSE,
               ret |-> 200 <= outcome.status /\ outcome.status < 300]

\* print(f"Notion post: {'OK' if ok else 'Failed'}") and its Slack twin.
status_line(dest, ok) ==
    Line(CASE dest = "notion" /\ ok  -> "Notion post: OK"
           [] dest = "notion" /\ ~ok -> "Notion post: Failed"
           [] dest = "slack" /\ ok   -> "Slack post: OK"
           [] OTHER                  -> "Slack post: Failed",
         <<>>)

(***************************************************************************)
(* Date-range resolution as a step                                         *)
(***************************************************************************)
\* The call site's resolution of (in_start, in_end) at the instant now.
DoResolve ==
    LET r == resolve(site, in_start, in_end, now)
    IN /\ dpc' = IF r.raised = "none" THEN "resolved" ELSE "raised"
       /\ start_dt' = r.start
       /\ end_dt' = r.end
       /\ UNCHANGED <<site, in_start, in_end, now, query>>

\* The fetcher builds its query from the resolved range.
DoQuery ==
    /\ query' = date_predicate(start_dt, end_dt)
    /\ dpc' = "queried"
    /\ UNCHANGED <<site, in_start, in_end, now, start_dt, end_dt>>

DatesIdle ==
    /\ dpc = "input"
    /\ start_dt = NoDt
    /\ end_dt = NoDt
    /\ query = NoQuery

MainIdle ==
    /\ pc = "idle"
    /\ env = [GITHUB_TOKEN |-> TRUE]
    /\ calls = <<>>
    /\ stdout = <<>>
    /\ printed_at = -1
    /\ issues = -1
    /\ idx = 0
    /\ plain = <<>>
    /\ ai_summary = NoSummary
    /\ error = "none"
    /\ publishes = <<>>

(***************************************************************************)
(* main of prs_report.py and reviews_report.py                             *)
(***************************************************************************)
Envs ==
    [GITHUB_TOKEN : BOOLEAN, OPENAI_API_KEY : BOOLEAN, openai_imported : BOOLEAN,
     NOTION_TOKEN : BOOLEAN, NOTION_PAGE_ID : BOOLEAN, SLACK_WEBHOOK : BOOLEAN,
     enable_ai : BOOLEAN, enable_notion : BOOLEAN, enable_slack : BOOLEAN]

\* The pull requests behind the issues a search returns in Spec.
MainPRs ==
    { [created_at |-> 36000, merged_at |-> NoTime, reviews |-> <<>>,
       review_comments |-> <<>>, issue_comments |-> <<>>],
      [created_at |-> 36000, merged_at |-> 72000,
       reviews |-> << [user |-> "other", state |-> "APPROVED",
                       submitted_at |-> 54000] >>,
       review_comments |-> <<>>, issue_comments |-> <<>>] }

\* The remote calls of one pass of the aggregation loop, in order.
IssueCalls(st) ==
    IF st = "prs"
    THEN << "github.get_repo", "github.get_pull", "github.get_reviews",
            "github.get_reviews", "github.get_review_comments",
            "github.get_issue_comments" >>
    ELSE << "github.get_repo", "github.get_pull", "github.get_review_comments",
            "github.get_issue_comments", "github.get_reviews" >>

IsOptionalCall(c) == c \in {"openai.ChatCompletion.create", "notion.post", "slack.post"}

MainInit ==
    /\ pc = "start"
    /\ env \in Envs
    /\ calls = <<>>
    /\ stdout = <<>>
    /\ printed_at = -1
    /\ issues = -1
    /\ idx = 0
    /\ plain = <<>>
    /\ ai_summary = NoSummary
    /\ error = "none"
    /\ publishes = <<>>
    /\ site \in {"prs", "reviews"}
    /\ in_start \in {NoneStr, [kind |-> "date", y |-> 2025, m |-> 1, d |-> 3, tz |-> ""]}
    /\ in_end = NoneStr
    /\ now = [y |-> 2025, m |-> 12, d |-> 31, hh |-> 13]
    /\ DatesIdle
    /\ PrAggInit
    /\ ReviewAggInit

\* The run ends with the exception exc.
Abort(exc) ==
    /\ pc' = "failed"
    /\ error' = exc

\* g = get_github_client()
GetGithubClient ==
    /\ pc = "start"
    /\ IF ~env.GITHUB_TOKEN THEN Abort("EnvironmentError")
       ELSE pc' = "get_user" /\ error' = error
    /\ UNCHANGED <<env, calls, stdout, printed_at, issues, idx, plain,
                   ai_summary, publishes, dateVars, aggVars, revVars>>

\* username = get_authenticated_username(g): GET /user
GetAuthenticatedUsername ==
    /\ pc = "get_user"
    /\ calls' = Append(calls, "github.get_user")
    /\ \E ok \in BOOLEAN :
          IF ok THEN pc' = "parse_dates" /\ error' = error
          ELSE Abort("GithubException")
    /\ UNCHANGED <<env, stdout, printed_at, issues, idx, plain, ai_summary,
                   publishes, dateVars, aggVars, revVars>>

\* start_dt, end_dt = parse_date_range(start, end)
ParseDateRange ==
    /\ pc = "parse_dates"
    /\ DoResolve
    /\ IF dpc' = "raised" THEN Abort("ValueError")
       ELSE pc' = "fetch" /\ error' = error
    /\ UNCHANGED <<env, calls, stdout, printed_at, issues, idx, plain,
                   ai_summary, publishes, aggVars, revVars>>

\* issues = fetch_pr_issues(...) / fetch_review_issues(...)
FetchIssues ==
    /\ pc = "fetch"
    /\ DoQuery
    /\ calls' = Append(calls, "github.search_issues")
    /\ \/ Abort("GithubException") /\ UNCHANGED <<issues>>
       \/ \E n \in 0..MaxIssues :
             /\ issues' = n
             /\ pc' = "aggregate"
             /\ error' = error
    /\ UNCHANGED <<env, stdout, printed_at, idx, plain, ai_summary, publishes,
                   aggVars, revVars>>

\* One pass of `for issue in issues:` in aggregate_pr_stats or
\* aggregate_review_stats; any of its remote calls may raise.
AggregateIssue ==
    /\ pc = "aggregate"
    /\ idx < issues
    /\ \E pr \in MainPRs, k \in 0..Len(IssueCalls(site)) :
          IF k < Len(IssueCalls(site))
          THEN /\ calls' = calls \o SubSeq(IssueCalls(site), 1, k + 1)
               /\ Abort("GithubException")
               /\ UNCHANGED <<idx, aggVars, revVars>>
          ELSE /\ calls' = calls \o IssueCalls(site)
               /\ idx' = idx + 1
               /\ pc' = pc
               /\ error' = error
               /\ IF site = "prs"
                  THEN /\ PrLoopBody(pr)
                       /\ UNCHANGED <<apc, pr_stats, revVars>>
                  ELSE /\ ReviewLoopBody(pr, start_dt, end_dt)
                       /\ UNCHANGED <<review_stats, aggVars>>
    /\ UNCHANGED <<env, stdout, printed_at, issues, plain, ai_summary,
                   publishes, dateVars>>

\* ReturnStats with the return inside the loop: taken after the first pass.
ReturnStatsInsideLoop ==
    /\ pc = "aggregate"
    /\ idx = issues \/ idx >= 1
    /\ IF site = "prs"
       THEN /\ pr_stats' = PrStatsDict(start_dt, end_dt)
            /\ apc' = "done"
            /\ UNCHANGED <<records, prs_count, change_requests_received,
                           approval_hours, merged_hours, comments_received,
                           revVars>>
       ELSE /\ review_stats' = ReviewStatsDict(start_dt, end_dt)
            /\ UNCHANGED <<total_reviews, approvals, change_requests,
                           comment_count, pr_review_deltas, aggVars>>
    /\ pc' = "format"
    /\ UNCHANGED <<env, calls, stdout, printed_at, issues, idx, plain,
                   ai_summary, error, publishes, dateVars>>

\* The loop is over: the averages are computed and the stats dict returned.
ReturnStats ==
    /\ pc = "aggregate"
    /\ idx = issues
    /\ IF site = "prs"
       THEN /\ pr_stats' = PrStatsDict(start_dt, end_dt)
            /\ apc' = "done"
            /\ UNCHANGED <<records, prs_count, change_requests_received,
                           approval_hours, merged_hours, comments_received,
                           revVars>>
       ELSE /\ review_stats' = ReviewStatsDict(start_dt, end_dt)
            /\ UNCHANGED <<total_reviews, approvals, change_requests,
                           comment_count, pr_review_deltas, aggVars>>
    /\ pc' = "format"
    /\ UNCHANGED <<env, calls, stdout, printed_at, issues, idx, plain,
                   ai_summary, error, publishes, dateVars>>

\* PrintReport with print(plain) moved behind the summarizer and publishers.
PrintReportDeferred ==
    /\ pc = "format"
    /\ plain' = IF site = "prs" THEN format_pr_report(pr_stats)
                ELSE format_review_report(review_stats)
    /\ pc' = IF env.enable_ai THEN "ai" ELSE "done"
    /\ IF pc' = "done"
       THEN stdout' = stdout \o plain' /\ printed_at' = Len(calls)
       ELSE UNCHANGED <<stdout, printed_at>>
    /\ UNCHANGED <<env, calls, issues, idx, ai_summary, error, publishes,
                   dateVars, aggVars, revVars>>

\* plain = format_plain_report(stats); print(plain)
PrintReport ==
    /\ pc = "format"
    /\ plain' = IF site = "prs" THEN format_pr_report(pr_stats)
                ELSE format_review_report(review_stats)
    /\ stdout' = stdout \o plain'
    /\ printed_at' = Len(calls)
    /\ pc' = IF env.enable_ai THEN "ai" ELSE "done"
    /\ UNCHANGED <<env, calls, issues, idx, ai_summary, error, publishes,
                   dateVars, aggVars, revVars>>

\* ai_summary = generate_ai_summary(stats), printed when truthy.
GenerateAiSummary ==
    /\ pc = "ai"
    /\ \E o \in AiOutcomes :
          LET r == generate_ai_summary(env, o)
          IN /\ ai_summary' = r.value
             /\ calls' = IF r.called
                         THEN Append(calls, "openai.ChatCompletion.create")
                         ELSE calls
             /\ stdout' = IF SummaryTruthy(r.value)
                          THEN stdout \o << Line("", <<>>),
                                            Line("AI summary:", <<>>),
                                            Line(r.value, <<>>) >>
                          ELSE stdout
    /\ pc' = "notion"
    /\ UNCHANGED <<env, printed_at, issues, idx, plain, error, publishes,
                   dateVars, aggVars, revVars>>

\* The text handed to a publisher: ai_summary or plain.
PublishedText == IF SummaryTruthy(ai_summary) THEN <<Line(ai_summary, <<>>)>> ELSE plain

\* A finished (or raised) publisher call, as recorded in publishes.
PublishRecord(dest, o, r) ==
    [dest |-> dest,
     outcome |-> IF r.called THEN o ELSE [kind |-> "not called", status |-> 0],
     called |-> r.called, raised |-> r.raised, ret |-> r.ret,
     text |-> PublishedText]

\* if enable_notion: ok = post_to_notion(...); print status
PostToNotion ==
    /\ pc = "notion"
    /\ IF ~env.enable_notion
       THEN /\ pc' = "slack"
            /\ UNCHANGED <<calls, stdout, error, publishes>>
       ELSE \E o \in HttpOutcomes :
               LET r == post_to_notion(env.NOTION_TOKEN, env.NOTION_PAGE_ID, o)
               IN /\ calls' = IF r.called THEN Append(calls, "notion.post")
                              ELSE calls
                  /\ publishes' = Append(publishes, PublishRecord("notion", o, r))
                  /\ IF r.raised
                     THEN Abort("RequestException") /\ stdout' = stdout
                     ELSE /\ stdout' = Append(stdout, status_line("notion", r.ret))
                          /\ pc' = "slack"
                          /\ error' = error
    /\ UNCHANGED <<env, printed_at, issues, idx, plain, ai_summary, dateVars,
                   aggVars, revVars>>

\* if enable_slack: ok = post_to_slack(...); print status
PostToSlack ==
    /\ pc = "slack"
    /\ IF ~env.enable_slack
       THEN /\ pc' = "done"
            /\ UNCHANGED <<calls, stdout, error, publishes>>
       ELSE \E o \in HttpOutcomes :
               LET r == post_to_slack(env.SLACK_WEBHOOK, o)
               IN /\ calls' = IF r.called THEN Append(calls, "slack.post")
                              ELSE calls
                  /\ publishes' = Append(publishes, PublishRecord("slack", o, r))
                  /\ IF r.raised
                     THEN Abort("RequestException") /\ stdout' = stdout
                     ELSE /\ stdout' = Append(stdout, status_line("slack", r.ret))
                          /\ pc' = "done"
                          /\ error' = error
    /\ UNCHANGED <<env, printed_at, issues, idx, plain, ai_summary, dateVars,
                   aggVars, revVars>>

Init == MainInit

Next ==
    \/ GetGithubClient
    \/ GetAuthenticatedUsername
    \/ ParseDateRange
    \/ FetchIssues
    \/ AggregateIssue
    \/ ReturnStats
    \/ PrintReport
    \/ GenerateAiSummary
    \/ PostToNotion
    \/ PostToSlack

Spec == Init /\ [][Next]_vars

(***************************************************************************)
(* SpecDates: date-range resolution on its own, at every call site         *)
(***************************************************************************)
InitDates ==
    /\ site \in Sites
    /\ in_start \in OptStrings
    /\ in_end \in OptStrings
    /\ now \in Nows
    /\ DatesIdle
    /\ MainIdle
    /\ PrAggInit
    /\ ReviewAggInit

\* The call site resolves the range it was given.
ResolveDates ==
    /\ dpc = "input"
    /\ DoResolve
    /\ UNCHANGED <<mainVars, aggVars, revVars>>

\* The resolved range reaches the fetcher.
BuildQuery ==
    /\ dpc = "resolved"
    /\ DoQuery
    /\ UNCHANGED <<mainVars, aggVars, revVars>>

NextDates == ResolveDates \/ BuildQuery

SpecDates == InitDates /\ [][NextDates]_vars

(***************************************************************************)
(* SpecPrAgg: aggregate_pr_stats over pull requests drawn from small sets  *)
(***************************************************************************)
\* Creation instants, and the delays after creation of a merge, a review
\* and a comment, in seconds.
CreatedTimes == {36000, 90000}
MergeDelays == {36000, 108000}
SubmitDelays == {18000, 27000}
CommentDelays == {3600}

ReviewsOf(created) ==
    [user : Logins, state : ReviewStates,
     submitted_at : {NoTime} \cup {created + d : d \in SubmitDelays}]

CommentsOf(created) ==
    [user : Logins, created_at : {created + d : d \in CommentDelays}]

\* The pull requests created at c with nr reviews, nrc inline comments and
\* nic issue comments.
PullRequestsOfShape(c, nr, nrc, nic) ==
    [created_at : {c},
     merged_at : {NoTime} \cup {c + d : d \in MergeDelays},
     reviews : [1..nr -> ReviewsOf(c)],
     review_comments : [1..nrc -> CommentsOf(c)],
     issue_comments : [1..nic -> CommentsOf(c)]]

\* The shapes with at most n reviews and comments in all.
Shapes(n) ==
    { sh \in (0..n) \X (0..n) \X (0..n) : sh[1] + sh[2] + sh[3] <= n }

\* The pull requests with at most n reviews and comments in all.
PullRequests(n) ==
    UNION { PullRequestsOfShape(c, sh[1], sh[2], sh[3])
            : c \in CreatedTimes, sh \in Shapes(n) }

\* Pull requests, reviews and comments in the record rec.
EventsOf(rec) ==
    1 + Len(rec.reviews) + Len(rec.review_comments) + Len(rec.issue_comments)

RECURSIVE EventsIn(_)
EventsIn(recs) == IF recs = <<>> THEN 0 ELSE EventsOf(Head(recs)) + EventsIn(Tail(recs))

InitPrAgg ==
    /\ PrAggInit
    /\ ReviewAggInit
    /\ MainIdle
    /\ site = "prs"
    /\ in_start = [kind |-> "date", y |-> 2025, m |-> 1, d |-> 3, tz |-> ""]
    /\ in_end = NoneStr
    /\ now = [y |-> 2025, m |-> 12, d |-> 31, hh |-> 13]
    /\ dpc = "resolved"
    /\ start_dt = parse_date_range_strict(in_start, in_end, now).start
    /\ end_dt = parse_date_range_strict(in_start, in_end, now).end
    /\ query = NoQuery

\* One pass of `for issue in issues:` on the next pull request.
PrAggregateIssue ==
    /\ site = "prs"
    /\ apc = "loop"
    /\ EventsIn(records) < MaxEvents
    /\ \E pr \in PullRequests(MaxEvents - EventsIn(records) - 1) : PrLoopBody(pr)
    /\ UNCHANGED <<apc, pr_stats, mainVars, dateVars, revVars>>

\* The issues are exhausted: aggregate_pr_stats returns.
PrReturnStats ==
    /\ site = "prs"
    /\ apc = "loop"
    /\ apc' = "done"
    /\ pr_stats' = PrStatsDict(start_dt, end_dt)
    /\ UNCHANGED <<records, prs_count, change_requests_received, approval_hours,
                   merged_hours, comments_received, mainVars, dateVars, revVars>>

NextPrAgg == PrAggregateIssue \/ PrReturnStats

SpecPrAgg == InitPrAgg /\ [][NextPrAgg]_vars

(***************************************************************************)
(* SpecRevAgg: aggregate_review_stats over pull requests whose events lie  *)
(* around the bounds of the resolved range                                 *)
(***************************************************************************)
\* Event instants: one second before the range, its two bounds, one second
\* after it.
RangeTimes ==
    {timestamp(start_dt) - 1, timestamp(start_dt),
     timestamp(end_dt), timestamp(end_dt) + 1}

\* Reviews that carry a state.
ReviewEvents ==
    [user : Logins, state : ReviewStates \ {NoState},
     submitted_at : {NoTime} \cup RangeTimes]

CommentEvents == [user : Logins, created_at : RangeTimes]

\* The reviewed pull requests, created a day before the range, with nr
\* reviews, nrc inline comments and nic issue comments.
ReviewedPullRequestsOfShape(nr, nrc, nic) ==
    [created_at : {timestamp(start_dt) - SecondsPerDay},
     merged_at : {NoTime},
     reviews : [1..nr -> ReviewEvents],
     review_comments : [1..nrc -> CommentEvents],
     issue_comments : [1..nic -> CommentEvents]]

ReviewedPullRequests(n) ==
    UNION { ReviewedPullRequestsOfShape(sh[1], sh[2], sh[3]) : sh \in Shapes(n) }

\* The ranges given on the command line: a naive or a UTC start, the end
\* omitted or given in UTC.
RangeStarts ==
    { [kind |-> "date", y |-> 2025, m |-> 1, d |-> 3, tz |-> z] : z \in {"", "Z"} }
RangeEnds ==
    { NoneStr, [kind |-> "date", y |-> 2025, m |-> 1, d |-> 5, tz |-> "Z"] }

InitRevAgg ==
    /\ PrAggInit
    /\ ReviewAggInit
    /\ pc = "idle"
    /\ env \in [GITHUB_TOKEN : {TRUE}, aware_datetimes : BOOLEAN]
    /\ calls = <<>>
    /\ stdout = <<>>
    /\ printed_at = -1
    /\ issues = -1
    /\ idx = 0
    /\ plain = <<>>
    /\ ai_summary = NoSummary
    /\ error = "none"
    /\ publishes = <<>>
    /\ site = "reviews"
    /\ in_start \in RangeStarts
    /\ in_end \in RangeEnds
    /\ now = [y |-> 2025, m |-> 1, d |-> 5, hh |-> 13]
    /\ dpc = "resolved"
    /\ start_dt = parse_date_range_strict(in_start, in_end, now).start
    /\ end_dt = parse_date_range_strict(in_start, in_end, now).end
    /\ query = NoQuery

\* One pass of `for issue in issues:` on the next pull request; a TypeError
\* raised by a comparison ends aggregate_review_stats.
RevAggregateIssue ==
    /\ site = "reviews"
    /\ apc = "loop"
    /\ EventsIn(records) < MaxEvents
    /\ \E pr \in ReviewedPullRequests(MaxEvents - EventsIn(records) - 1) :
          IF review_loop_body_raises(pr, Username, start_dt, end_dt,
                                     env.aware_datetimes)
          THEN /\ apc' = "raised"
               /\ error' = "TypeError"
               /\ UNCHANGED <<records, total_reviews, approvals, change_requests,
                              comment_count, pr_review_deltas>>
          ELSE /\ ReviewLoopBody(pr, start_dt, end_dt)
               /\ records' = Append(records, pr)
               /\ UNCHANGED <<apc, error>>
    /\ UNCHANGED <<pc, env, calls, stdout, printed_at, issues, idx, plain,
                   ai_summary, publishes, prs_count, change_requests_received,
                   approval_hours, merged_hours, comments_received, pr_stats,
                   review_stats, dateVars>>

\* The issues are exhausted: aggregate_review_stats returns.
RevReturnStats ==
    /\ site = "reviews"
    /\ apc = "loop"
    /\ apc' = "done"
    /\ review_stats' = ReviewStatsDict(start_dt, end_dt)
    /\ UNCHANGED <<records, prs_count, change_requests_received, approval_hours,
                   merged_hours, comments_received, pr_stats, total_reviews,
                   approvals, change_requests, comment_count, pr_review_deltas,
                   mainVars, dateVars>>

NextRevAgg == RevAggregateIssue \/ RevReturnStats

SpecRevAgg == InitRevAgg /\ [][NextRevAgg]_vars

(***************************************************************************)
(* SpecAgg: the two aggregators side by side                               *)
(***************************************************************************)
InitAgg == InitPrAgg \/ InitRevAgg

NextAgg == NextPrAgg \/ NextRevAgg

SpecAgg == InitAgg /\ [][NextAgg]_vars

(***************************************************************************)
(* scripts/weekly_report.py: make_ai_summary and its call site             *)
(***************************************************************************)
\* The length of the excerpt make_ai_summary falls back to.
ExcerptChars == 500

RECURSIVE Repeat(_, _)
\* The string s written n times.
Repeat(s, n) ==
    IF n = 0 THEN ""
    ELSE IF n % 2 = 0 THEN LET h == Repeat(s, n \div 2) IN h \o h
    ELSE s \o Repeat(s, n - 1)

\* Report texts of lengths below, at and above the excerpt length.
ReportTexts == { Repeat("r", n) : n \in {0, 120, 500, 501, 900} }

\* report_text[:500]
excerpt(report_text) ==
    SubSeq(report_text, 1,
           IF Len(report_text) < ExcerptChars THEN Len(report_text)
           ELSE ExcerptChars)

\* The texts make_ai_summary puts before the excerpt; str(e) is "error".
NoKeyPrefix == "(No AI key provided) Brief summary:\n"
FailedPrefix == "(AI call failed) error\n\n"

\* make_ai_summary(openai_key, report_text) of weekly_report.
make_ai_summary(openai_key, report_text, outcome) ==
    IF ~openai_key
    THEN [called |-> FALSE, value |-> NoKeyPrefix \o excerpt(report_text)]
    ELSE [called |-> TRUE,
          value |-> IF outcome = "digest" THEN "digest"
                    ELSE IF outcome = "blank" THEN ""
                    ELSE FailedPrefix \o excerpt(report_text)]

WeeklyEnvs ==
    [GITHUB_TOKEN : {TRUE}, OPENAI_API_KEY : BOOLEAN, openai_imported : BOOLEAN]

\* weekly_report is started; report_text, which main builds from the
\* counts, is drawn from ReportTexts.
InitWeekly ==
    /\ pc = "w_import"
    /\ env \in WeeklyEnvs
    /\ calls = <<>>
    /\ stdout = <<>>
    /\ printed_at = -1
    /\ issues = -1
    /\ idx = 0
    /\ plain \in ReportTexts
    /\ ai_summary = NoSummary
    /\ error = "none"
    /\ publishes = <<>>
    /\ site = "weekly"
    /\ in_start = NoneStr
    /\ in_end = NoneStr
    /\ now = [y |-> 2025, m |-> 12, d |-> 31, hh |-> 13]
    /\ DatesIdle
    /\ PrAggInit
    /\ ReviewAggInit

\* `import openai` at the top of weekly_report.py, outside any try.
WeeklyImportOpenai ==
    /\ pc = "w_import"
    /\ IF ~env.openai_imported THEN Abort("ImportError")
       ELSE pc' = "w_summary" /\ error' = error
    /\ UNCHANGED <<env, calls, stdout, printed_at, issues, idx, plain,
                   ai_summary, publishes, dateVars, aggVars, revVars>>

\* ai_summary = make_ai_summary(os.environ.get('OPENAI_API_KEY'), report_text)
WeeklyMakeAiSummary ==
    /\ pc = "w_summary"
    /\ \E o \in AiOutcomes :
          LET r == make_ai_summary(env.OPENAI_API_KEY, plain, o)
          IN /\ ai_summary' = r.value
             /\ calls' = IF r.called
                         THEN Append(calls, "openai.ChatCompletion.create")
                         ELSE calls
    /\ pc' = "w_print"
    /\ UNCHANGED <<env, stdout, printed_at, issues, idx, plain, error,
                   publishes, dateVars, aggVars, revVars>>

\* full_report = report_text + "\nAI Summary:\n" + ai_summary; print it.
WeeklyPrintReport ==
    /\ pc = "w_print"
    /\ stdout' = Append(stdout, Line(plain \o "\nAI Summary:\n" \o ai_summary, <<>>))
    /\ printed_at' = Len(calls)
    /\ pc' = "done"
    /\ UNCHANGED <<env, calls, issues, idx, plain, ai_summary, error,
                   publishes, dateVars, aggVars, revVars>>

NextWeekly == WeeklyImportOpenai \/ WeeklyMakeAiSummary \/ WeeklyPrintReport

(***************************************************************************)
(* SpecSummarizer: the runs of the three scripts that reach a summarizer   *)
(***************************************************************************)
InitSummarizer == MainInit \/ InitWeekly

NextSummarizer == Next \/ NextWeekly

SpecSummarizer == InitSummarizer /\ [][NextSummarizer]_vars

(***************************************************************************)
(* Properties of the publishers and of main                                *)
(***************************************************************************)
\* A 2xx response.
IsSuccess(o) == o.kind = "response" /\ o.status >= 200 /\ o.status <= 299

\* The primary fetch/aggregate phase has succeeded: the stats dict exists.
PrimaryDone == pr_stats.returned \/ review_stats.returned

\* C1: every publisher call returns a boolean for every outcome of the remote
\* call (True on a 2xx response; False on a non-2xx response, on a missing
\* credential and on a network failure) and never raises past its call site.
C1_PublisherReturnsBoolean ==
    \A i \in DOMAIN publishes :
        /\ ~publishes[i].raised
        /\ publishes[i].ret = (publishes[i].called /\ IsSuccess(publishes[i].outcome))

\* C2: once the primary phase has succeeded the run never aborts, whatever
\* the publishers' outcomes; a failed Notion attempt is reported as a
\* "Notion post: Failed" line and the enabled Slack attempt is still made.
C2_RunCompletesDespitePublishFailures ==
    /\ PrimaryDone => pc # "failed"
    /\ \A i \in DOMAIN publishes :
          (publishes[i].dest = "notion" /\ ~IsSuccess(publishes[i].outcome)
           /\ pc \in {"done", "failed"})
          => /\ \E k \in DOMAIN stdout : stdout[k] = status_line("notion", FALSE)
             /\ env.enable_slack
                => \E j \in DOMAIN publishes : j > i /\ publishes[j].dest = "slack"

\* C3: a configuration error (GITHUB_TOKEN missing, or the start date omitted
\* with the strict parse_date_range) aborts the run before any remote call.
C3_ConfigErrorBeforeAnyRemoteCall ==
    error \in {"EnvironmentError", "ValueError"} => calls = <<>>

\* The report main prints: the formatter applied to the returned stats.
ExpectedReport ==
    IF site = "prs" THEN format_pr_report(pr_stats)
    ELSE format_review_report(review_stats)

\* C4: the plain-text report is printed before the first summarizer or
\* publisher call, and stays, unchanged, at the head of the output whatever
\* the later summarizer and publisher calls do.
C4_ReportPrintedFirstAndKept ==
    /\ (\/ \E i \in DOMAIN calls : IsOptionalCall(calls[i])
        \/ publishes # <<>>
        \/ pc \in {"notion", "slack"})
       => printed_at # -1
    /\ printed_at # -1
       => /\ \A i \in DOMAIN calls : IsOptionalCall(calls[i]) => i > printed_at
          /\ Len(stdout) >= Len(ExpectedReport)
          /\ SubSeq(stdout, 1, Len(ExpectedReport)) = ExpectedReport
          /\ ExpectedReport # <<>>

\* C4 witness: the report was printed, the summarizer was called, and the
\* Notion publisher then failed with a network error.
C4_Witness ==
    /\ printed_at # -1
    /\ \E i \in DOMAIN calls : calls[i] = "openai.ChatCompletion.create"
    /\ \E i \in DOMAIN publishes : publishes[i].raised
    /\ pc = "failed"

\* C5: nothing is printed until the aggregation loop has processed every
\* issue the search returned, and a remote failure in the fetch/aggregate
\* phase aborts the run with nothing printed.
C5_NoPartialReport ==
    /\ (stdout # <<>> \/ plain # <<>>)
       => /\ issues >= 0
          /\ idx = issues
          /\ PrimaryDone
          /\ site = "prs" => (Len(records) = issues /\ pr_stats.prs_count = issues)
    /\ error = "GithubException" => (stdout = <<>> /\ plain = <<>> /\ pc = "failed")

\* C5 witness: a printed report over two aggregated issues.
C5_Witness ==
    /\ stdout # <<>>
    /\ issues >= 2
    /\ idx = issues

\* C5 witness, abort: the second issue's fetch failed after the first was
\* aggregated.
C5_AbortWitness ==
    /\ error = "GithubException"
    /\ idx >= 1
    /\ stdout = <<>>

(***************************************************************************)
(* Properties of date-range resolution                                     *)
(***************************************************************************)
\* s is one year before e to the day (29 February falls on 28 February).
YearBeforeToTheDay(s, e) ==
    /\ s.y = e.y - 1
    /\ s.m = e.m
    /\ \/ s.d = e.d
       \/ (e.m = 2 /\ e.d = 29 /\ s.d = 28)

\* scripts/gh_utils.parse_date_range has returned for an omitted start.
LenientStartOmitted ==
    /\ site = "scripts_gh_utils"
    /\ dpc \in {"resolved", "queried"}
    /\ ~Truthy(in_start)

C7_RangeIsTimezoneAware ==
    dpc = "queried" => (start_dt.tzinfo # NoTz /\ end_dt.tzinfo # NoTz)

(***************************************************************************)
(* Properties of aggregate_pr_stats                                        *)
(***************************************************************************)
\* The reviews of the processed records, as <<record index, review index>>.
ReviewIds ==
    UNION { { <<i, j>> : j \in DOMAIN records[i].reviews } : i \in DOMAIN records }

ReviewAt(id) == records[id[1]].reviews[id[2]]

\* A review by somebody else than the acting user.
ByAnother(r) == r.user # NoUser /\ r.user # Username

\* The reviews that request changes, made by another actor.
ChangeRequestIds ==
    { id \in ReviewIds : ReviewAt(id).state = "CHANGES_REQUESTED"
                         /\ ByAnother(ReviewAt(id)) }

\* The approvals by another actor that carry a submission time.
ApprovalIds ==
    { id \in ReviewIds : /\ ReviewAt(id).state = "APPROVED"
                         /\ ByAnother(ReviewAt(id))
                         /\ ReviewAt(id).submitted_at # NoTime }

\* Seconds from the creation of its pull request to the approval id.
ApprovalSeconds(id) == ReviewAt(id).submitted_at - records[id[1]].created_at

\* The merged records, and the seconds from creation to merge.
MergedIds == { i \in DOMAIN records : records[i].merged_at # NoTime }
MergeSeconds(i) == records[i].merged_at - records[i].created_at

\* The sample x is the duration of `seconds` seconds, in hours.
InHours(x, seconds) == x.den > 0 /\ x.num * 3600 = seconds * x.den

\* The sample list xs holds exactly one sample per member of ids: the hours
\* of that member's Seconds.
OneSampleEach(xs, ids, Seconds(_)) ==
    /\ Len(xs) = Cardinality(ids)
    /\ \A k \in DOMAIN xs :
          Cardinality({ j \in DOMAIN xs : xs[j] = xs[k] })
          = Cardinality({ id \in ids : InHours(xs[k], Seconds(id)) })
    /\ \A id \in ids : \E k \in DOMAIN xs : InHours(xs[k], Seconds(id))

RECURSIVE TotalApprovalSeconds(_)
TotalApprovalSeconds(ids) ==
    IF ids = {} THEN 0
    ELSE LET id == CHOOSE x \in ids : TRUE
         IN ApprovalSeconds(id) + TotalApprovalSeconds(ids \ {id})

RECURSIVE TotalMergeSeconds(_)
TotalMergeSeconds(ids) ==
    IF ids = {} THEN 0
    ELSE LET i == CHOOSE x \in ids : TRUE
         IN MergeSeconds(i) + TotalMergeSeconds(ids \ {i})

\* The average avg (hours, or None) is the mean of n durations that add up
\* to total seconds.
IsMeanHours(avg, total, n) ==
    IF n = 0 THEN avg = NoHours
    ELSE /\ avg.den > 0
         /\ avg.den % 3600 = 0
         /\ avg.num * n = total * (avg.den \div 3600)

\* C8: change_requests_received is the number of reviews, over all records,
\* whose state is CHANGES_REQUESTED and whose actor is another user than the
\* acting one; the acting user's own change requests and the reviews'
\* timestamps do not enter it.
C8_ChangeRequestsReceived ==
    /\ change_requests_received = Cardinality(ChangeRequestIds)
    /\ apc = "done"
       => pr_stats.change_requests_received = Cardinality(ChangeRequestIds)

\* C8 witness: the loop has seen a change request by the acting user, and one
\* by another actor that has no submission time.
C8_Witness ==
    /\ apc = "done"
    /\ \E id \in ReviewIds : /\ ReviewAt(id).state = "CHANGES_REQUESTED"
                             /\ ReviewAt(id).user = Username
    /\ \E id \in ChangeRequestIds : ReviewAt(id).submitted_at = NoTime

\* C9: the approval sample list holds exactly one sample, submitted_at minus
\* created_at in hours, per APPROVED review by another actor with a
\* submission time, over all records; avg_hours_to_approval is its mean (None
\* when it is empty); one such approval 5 hours after creation prints 5.00.
C9_ApprovalSamples ==
    /\ OneSampleEach(approval_hours, ApprovalIds, ApprovalSeconds)
    /\ apc = "done"
       => /\ IsMeanHours(pr_stats.avg_hours_to_approval,
                         TotalApprovalSeconds(ApprovalIds),
                         Cardinality(ApprovalIds))
          /\ (/\ Cardinality(ApprovalIds) = 1
              /\ \A id \in ApprovalIds : ApprovalSeconds(id) = 5 * 3600)
             => format_pr_report(pr_stats)[6]
                = Line("Average hours until approval: {} hours", <<5, 0>>)

\* C9 witness: two approvals by others, 5 and 7.5 hours after creation, next
\* to none by the acting user: the mean prints as 6.25.
C9_Witness ==
    /\ apc = "done"
    /\ Cardinality(ApprovalIds) = 2
    /\ format_2f(pr_stats.avg_hours_to_approval) = <<6, 25>>

\* C9 witness: an approval by the acting user and one without a submission
\* time were seen and left out, one approval 5 hours after creation counted.
C9_ExampleWitness ==
    /\ apc = "done"
    /\ Cardinality(ApprovalIds) = 1
    /\ \E id \in ReviewIds : /\ ReviewAt(id).state = "APPROVED"
                             /\ ReviewAt(id).user = Username
                             /\ ReviewAt(id).submitted_at # NoTime
    /\ format_2f(pr_stats.avg_hours_to_approval) = <<5, 0>>

\* C10: a record contributes one merge sample, merged_at minus created_at in
\* hours, exactly when it is merged; avg_hours_to_merge is the mean over the
\* merged records only (None when there is none); merges after 10 and 30
\* hours print 20.00.
C10_MergeSamples ==
    /\ OneSampleEach(merged_hours, MergedIds, MergeSeconds)
    /\ apc = "done"
       => /\ IsMeanHours(pr_stats.avg_hours_to_merge,
                         TotalMergeSeconds(MergedIds), Cardinality(MergedIds))
          /\ (/\ Cardinality(MergedIds) = 2
              /\ \E i, j \in MergedIds : /\ MergeSeconds(i) = 10 * 3600
                                         /\ MergeSeconds(j) = 30 * 3600)
             => format_pr_report(pr_stats)[7]
                = Line("Average hours until merge: {} hours", <<20, 0>>)

\* C10 witness: three records, merged after 10 hours, merged after 30 hours
\* and not merged: the mean prints as 20.00.
C10_Witness ==
    /\ apc = "done"
    /\ Len(records) = 3
    /\ Cardinality(MergedIds) = 2
    /\ format_2f(pr_stats.avg_hours_to_merge) = <<20, 0>>


(***************************************************************************)
(* Properties of aggregate_review_stats                                    *)
(***************************************************************************)
\* The comments of the processed records, as <<record index, list, index>>.
CommentIds ==
    UNION { { <<i, "review", j>> : j \in DOMAIN records[i].review_comments }
            \cup { <<i, "issue", j>> : j \in DOMAIN records[i].issue_comments }
            : i \in DOMAIN records }

CommentAt(id) ==
    IF id[2] = "review" THEN records[id[1]].review_comments[id[3]]
    ELSE records[id[1]].issue_comments[id[3]]

\* An event by the acting user at an instant t with start <= t <= end.
ByUserInRange(user, t) ==
    /\ user = Username
    /\ t # NoTime
    /\ timestamp(start_dt) <= t
    /\ t <= timestamp(end_dt)

CountedReviewIds ==
    { id \in ReviewIds :
        ByUserInRange(ReviewAt(id).user, ReviewAt(id).submitted_at) }

CountedCommentIds ==
    { id \in CommentIds :
        ByUserInRange(CommentAt(id).user, CommentAt(id).created_at) }

\* C11: in the reviewed-PR aggregation a review or comment contributes to
\* total_reviews, approvals, change_requests, comment_count or the latency
\* samples only if its actor is the acting user and its timestamp t has
\* start <= t <= end, both bounds included; an event of the acting user
\* outside the range, or of another actor, changes no counter.
C11_OnlyUserEventsInRangeCount ==
    /\ total_reviews = Cardinality(CountedReviewIds)
    /\ approvals
       = Cardinality({ id \in CountedReviewIds : ReviewAt(id).state = "APPROVED" })
    /\ change_requests
       = Cardinality({ id \in CountedReviewIds :
                         ReviewAt(id).state = "CHANGES_REQUESTED" })
    /\ comment_count = Cardinality(CountedCommentIds)
    /\ Len(pr_review_deltas) = Cardinality(CountedReviewIds)

\* C11 witness: the acting user's review submitted exactly at the end bound
\* is counted, their review one second later is not.
C11_Witness ==
    /\ review_stats.returned
    /\ total_reviews = 1
    /\ \E id \in ReviewIds : /\ ReviewAt(id).user = Username
                             /\ ReviewAt(id).submitted_at = timestamp(end_dt)
    /\ \E id \in ReviewIds : /\ ReviewAt(id).user = Username
                             /\ ReviewAt(id).submitted_at = timestamp(end_dt) + 1

\* C11 witness, comments: a comment of the acting user at the start bound is
\* counted, a comment of another actor inside the range is not.
C11_CommentWitness ==
    /\ review_stats.returned
    /\ comment_count = 1
    /\ \E id \in CommentIds : /\ CommentAt(id).user = Username
                              /\ CommentAt(id).created_at = timestamp(start_dt)
    /\ \E id \in CommentIds : /\ CommentAt(id).user = "other"
                              /\ CommentAt(id).created_at = timestamp(end_dt)

\* C12: whenever a metric's sample list ends up empty its mean is absent
\* (None, never 0 and never a division by zero) and the formatter emits the
\* fallback line instead of a numeric line; when the list is not empty the
\* numeric line is emitted.
C12_EmptySamplesGiveFallbackLine ==
    /\ pr_stats.returned
       => /\ IF approval_hours = <<>>
             THEN /\ pr_stats.avg_hours_to_approval = NoHours
                  /\ format_pr_report(pr_stats)[6]
                     = Line("No approvals found in range.", <<>>)
             ELSE /\ pr_stats.avg_hours_to_approval.den > 0
                  /\ format_pr_report(pr_stats)[6]
                     = Line("Average hours until approval: {} hours",
                            format_2f(pr_stats.avg_hours_to_approval))
          /\ IF merged_hours = <<>>
             THEN /\ pr_stats.avg_hours_to_merge = NoHours
                  /\ format_pr_report(pr_stats)[7]
                     = Line("No merges found in range.", <<>>)
             ELSE /\ pr_stats.avg_hours_to_merge.den > 0
                  /\ format_pr_report(pr_stats)[7]
                     = Line("Average hours until merge: {} hours",
                            format_2f(pr_stats.avg_hours_to_merge))
    /\ review_stats.returned
       => IF pr_review_deltas = <<>>
          THEN /\ review_stats.avg_review_hours = NoHours
               /\ format_review_report(review_stats)[7]
                  = Line("No reviews found in the date range.", <<>>)
          ELSE /\ review_stats.avg_review_hours.den > 0
               /\ format_review_report(review_stats)[7]
                  = Line("Average hours between PR creation and your review: {} hours",
                         format_2f(review_stats.avg_review_hours))

\* C12 witness: a PR report with approvals but no merge: a numeric approval
\* line and the merge fallback line.
C12_Witness ==
    /\ pr_stats.returned
    /\ approval_hours # <<>>
    /\ merged_hours = <<>>
    /\ Len(records) >= 1

\* C12 witness, reviews: a reviews report over records none of whose events
\* counts, so that the fallback line is emitted.
C12_ReviewWitness ==
    /\ review_stats.returned
    /\ pr_review_deltas = <<>>
    /\ ReviewIds # {}

\* C15: approvals + change_requests <= total_reviews and the number of
\* latency samples equals total_reviews after any sequence of records, so
\* that avg_review_hours is absent exactly when total_reviews = 0.
C15_ReviewCountersConsistent ==
    /\ approvals + change_requests <= total_reviews
    /\ Len(pr_review_deltas) = total_reviews
    /\ review_stats.returned
       => /\ review_stats.total_reviews = total_reviews
          /\ (review_stats.avg_review_hours = NoHours) <=> (total_reviews = 0)

\* C15 witness: two counted reviews, an approval and a plain comment review.
C15_Witness ==
    /\ review_stats.returned
    /\ total_reviews = 2
    /\ approvals = 1
    /\ change_requests = 0
    /\ review_stats.avg_review_hours # NoHours

\* C15 witness, empty: records were processed and no review counted.
C15_EmptyWitness ==
    /\ review_stats.returned
    /\ Len(records) >= 1
    /\ total_reviews = 0
    /\ review_stats.avg_review_hours = NoHours


(***************************************************************************)
(* Properties of the summarizers and of the publishing flags               *)
(***************************************************************************)
\* The summarizer has returned to main.
SummarizerReturned ==
    IF site = "weekly" THEN pc \in {"w_print", "done"}
    ELSE pc \in {"notion", "slack"} \/ (pc \in {"done", "failed"} /\ publishes # <<>>)
         \/ (pc = "done" /\ env.enable_ai)

\* The remote summarizer call was made.
SummarizerCalled == \E i \in DOMAIN calls : calls[i] = "openai.ChatCompletion.create"

\* A placeholder string ending in an excerpt of at most the first 500
\* characters of the report.
IsPlaceholder(s, prefix) ==
    /\ Len(s) >= Len(prefix)
    /\ Len(s) <= Len(prefix) + 500
    /\ SubSeq(s, 1, Len(prefix)) = prefix
    /\ Len(s) - Len(prefix) <= Len(plain)
    /\ SubSeq(s, Len(prefix) + 1, Len(s)) = SubSeq(plain, 1, Len(s) - Len(prefix))
    /\ (Len(plain) <= 500 => Len(s) = Len(prefix) + Len(plain))

\* C13: the summarizer never raises: it returns None when no API key is
\* configured or the client library is unavailable (and makes no remote
\* call), the digest when the remote call succeeds, and on a failed remote
\* call None in the PR and reviews reports and a placeholder with an
\* excerpt of at most the first 500 characters of the report in the weekly
\* report; the run continues in every case.
C13_SummarizerDegradesToNoSummary ==
    /\ error # "ImportError"
    /\ SummarizerReturned
       => /\ (~env.OPENAI_API_KEY \/ ~env.openai_imported)
             => (ai_summary = NoSummary /\ ~SummarizerCalled)
          /\ (env.OPENAI_API_KEY /\ env.openai_imported)
             => /\ SummarizerCalled
                /\ \/ ai_summary \in {"digest", ""}
                   \/ (site # "weekly" /\ ai_summary = NoSummary)
                   \/ (site = "weekly" /\ IsPlaceholder(ai_summary, FailedPrefix))

\* C14: a run that reaches the publishing stage makes exactly one Notion
\* publish attempt and prints exactly one "Notion post:" line when
\* enable_notion is set, none when it is not, and the same for Slack,
\* whatever enable_ai is.
PublishAttempts(dest) ==
    Cardinality({ i \in DOMAIN publishes : publishes[i].dest = dest })

StatusLines(dest) ==
    Cardinality({ i \in DOMAIN stdout :
                    stdout[i] \in {status_line(dest, TRUE), status_line(dest, FALSE)} })

C14_OneAttemptPerEnabledDestination ==
    (printed_at # -1 /\ pc \in {"done", "failed"})
    => /\ PublishAttempts("notion") = (IF env.enable_notion THEN 1 ELSE 0)
       /\ StatusLines("notion") = (IF env.enable_notion THEN 1 ELSE 0)
       /\ PublishAttempts("slack") = (IF env.enable_slack THEN 1 ELSE 0)
       /\ StatusLines("slack") = (IF env.enable_slack THEN 1 ELSE 0)

=============================================================================
